---- MODULE Spec2Model ----
(***************************************************************************)
(* A model of the OpenDendro bootcamp2024 material:                        *)
(*                                                                         *)
(*  - dplpy_installation.md: the conda / pip / Jupyter commands of the     *)
(*    walkthrough and of the Setup Commands Summary, as a machine whose    *)
(*    state is the conda installation, its environments and their          *)
(*    packages, the registered Jupyter kernels and the notebook server.    *)
(*  - Introduction_to_Python.ipynb: the list indexing, np.arange and       *)
(*    .reshape expressions of its code cells, evaluated as Python and      *)
(*    NumPy evaluate them, next to the outputs the notebook records; the   *)
(*    row slices of its DataFrame; and a kernel that executes its code     *)
(*    cells, with its execution counter, namespace and outputs.            *)
(*  - bristlecone_example.ipynb and Introduction_to_Python.ipynb: the      *)
(*    names each code cell reads and binds.                                *)
(***************************************************************************)
EXTENDS Integers, Sequences, FiniteSets, TLC

VARIABLES
    conda,        \* TRUE once conda (Miniconda) is installed
    envs,         \* names of the conda environments that exist
    active,       \* the active environment, or NoEnv
    pkgs,         \* environment name -> set of <<package, version>>
    kernels,      \* kernel names registered with Jupyter (--user)
    server,       \* NoServer, or the running notebook server
    requires,     \* the package index's dependency relation
    recognised,   \* whether Jupyter finds conda environments by itself
    trace,        \* commands typed so far while they follow a documented list
    walk,         \* commands typed so far while they follow the walkthrough
    failed,       \* TRUE once a command was run with its precondition unmet
    saved,        \* what the last `conda deactivate` left, see CondaDeactivate
    s,            \* a Python list
    k,            \* an index into it
    item,         \* <<the value of s[k]>> once evaluated
    raised,       \* "pending", "" or the exception s[k] raised
    args,         \* the arguments of np.arange
    shp,          \* the arguments of .reshape
    arr,          \* the value of np.arange(*args)
    mat,          \* the value of arr.reshape(*shp)
    stage,        \* how far np.arange(*args).reshape(*shp) has got
    dims,         \* the shape the array a holds
    shapeAttr,    \* the value shown for a.shape
    shapeFunc,    \* the value shown for np.shape(a)
    frame,        \* a DataFrame
    lo,           \* the start of a slice of its rows
    hi,           \* the stop of that slice
    sliced,       \* the value of frame[lo:hi]
    located,      \* the value of frame.loc[lo:hi,:]
    book,         \* the notebook open in the kernel
    bound,        \* the names bound in the kernel
    ran,          \* cells run so far when run top to bottom once each, else -1
    nameError,    \* TRUE once a cell has read a name that was not bound
    count,        \* the kernel's execution counter
    cell,         \* the code cell run last, 0 before any
    user_ns,      \* the kernel's namespace: the value of each name bound
    outs          \* what the notebook holds under each code cell run

shellVars == <<conda, envs, active, pkgs, kernels, server, requires,
               recognised, trace, walk, failed, saved>>
listVars == <<s, k, item, raised>>
arrayVars == <<args, shp, arr, mat, stage, dims, shapeAttr, shapeFunc>>
frameVars == <<frame, lo, hi, sliced, located>>
nameVars == <<book, bound, ran, nameError>>
kernelVars == <<count, cell, user_ns, outs>>
vars == <<shellVars, listVars, arrayVars, frameVars, nameVars, kernelVars>>

(***************************************************************************)
(* dplpy_installation.md                                                   *)
(***************************************************************************)

NoEnv == "(none)"
NoServer == [env |-> NoEnv, kernels |-> {}]
None == [env |-> NoEnv, avail |-> {}, again |-> FALSE]

\* The environment conda itself lives in: "(base)" on the left of the prompt.
Base == "base"

\* The environment of the walkthrough, and one more for another project.
EnvNames == {"dplpy", "scratch"}

AllEnvs == {Base} \cup EnvNames

\* python=3.11 in `conda create --name dplpy python=3.11`.
PythonVersion == "3.11"
Latest == "latest"

\* What the walkthrough installs, and what those packages may depend on.
Installable == {"dplpy", "notebook", "ipykernel"}
Libraries == {"pandas", "numpy"}
Packages == {"python", "pip"} \cup Installable \cup Libraries

\* "Pip will be installed automatically when you install Miniconda."
BasePackages == {<<"python", Latest>>, <<"pip", Latest>>}

\* "when you create this environment the first time, conda will very likely
\* install several additional packages": python at the version asked, and pip.
NewEnvPackages == {<<"python", PythonVersion>>, <<"pip", Latest>>}

Names(ps) == {p[1] : p \in ps}

\* Dependency relations the package index may hold: package -> what it needs.
NoDeps == [p \in Packages |-> {}]
DepChoices ==
    { NoDeps,
      [NoDeps EXCEPT !["dplpy"] = {"pandas"}, !["pandas"] = {"numpy"}],
      [NoDeps EXCEPT !["dplpy"] = {"pandas", "numpy"}, !["pandas"] = {"numpy"},
                     !["notebook"] = {"ipykernel"}] }

\* A package and everything it requires, directly or not.
RECURSIVE Closure(_, _)
Closure(ns, req) ==
    LET more == ns \cup UNION {req[n] : n \in ns}
    IN  IF more = ns THEN ns ELSE Closure(more, req)

\* Only the package that was named: an installer that forgets dependencies.
OnlyNamed(p, req) == {p}

\* "dplPy will be downloaded and installed, as well as any required
\* dependencies."  "All of the packages and required dependencies will be
\* automatically downloaded and installed".
ToInstall(p, req) == Closure({p}, req)

\* The packages of an environment after installing p: what is already there
\* stays as it is, what is missing arrives at its latest version.
Installed(ps, p, req) ==
    ps \cup {<<n, Latest>> : n \in ToInstall(p, req) \ Names(ps)}

\* A pip that installs "globally": into base as well.
TargetsWithBase(a) == {a, Base}

\* "anything we install while we're here will go into this environment only."
InstallTargets(a) == {a}

\* Deactivating that throws the environment's packages away.
DeactivatedWiped(ps, a) == [ps EXCEPT ![a] = {}]

\* "This will deactivate your current environment. All of your packages and
\* versions will be available again if you activate it again."
Deactivated(ps, a) == ps

\* What is left active: base under any other environment, nothing under base.
Beneath(a) == IF a = Base THEN NoEnv ELSE Base

Cmd(c, a) == [cmd |-> c, arg |-> a]

\* What trace holds once the commands typed left the documented lists.
Off == <<Cmd("(off the documented lists)", "")>>

\* The fallback steps in the wrong order.
KernelBeforeIpykernel ==
    << Cmd("python -m ipykernel install --user --name", "dplpy"),
       Cmd("pip install", "ipykernel") >>

\* "1. Install ipykernel  1. Make kernel discoverable by Jupyter"
IpykernelFallback ==
    << Cmd("pip install", "ipykernel"),
       Cmd("python -m ipykernel install --user --name", "dplpy") >>

\* The summary with the environment activated before it is created.
SummaryActivateFirst ==
    << Cmd("install conda", ""),
       Cmd("conda activate", "dplpy"),
       Cmd("conda create --name", "dplpy"),
       Cmd("pip install", "dplpy"),
       Cmd("conda install", "notebook") >>

\* Steps 1 to 5 of the Setup Commands Summary.
SummarySteps ==
    << Cmd("install conda", ""),
       Cmd("conda create --name", "dplpy"),
       Cmd("conda activate", "dplpy"),
       Cmd("pip install", "dplpy"),
       Cmd("conda install", "notebook") >>

JupyterNotebookCmd == Cmd("jupyter notebook", "")

\* The six commands of the Setup Commands Summary.
SetupCommandsSummary == Append(SummarySteps, JupyterNotebookCmd)

\* The summary when "dplpy" is not recognised: step 6.1 before step 6.
SummaryWithFallback ==
    Append(SummarySteps \o IpykernelFallback, JupyterNotebookCmd)

Prefixes(q) == {SubSeq(q, 1, n) : n \in 0..Len(q)}

Documented == Prefixes(SetupCommandsSummary) \cup Prefixes(SummaryWithFallback)

\* The commands typed so far, for as long as they follow a documented list.
Typed(c) ==
    IF trace # Off /\ Append(trace, c) \in Documented
    THEN Append(trace, c) ELSE Off

\* A command as the guide prints it, and how the reader is told of it: as a
\* step to run, as steps to run before jupyter notebook when the environment
\* is not recognised, or as something only shown.
Told(text, how) == [text |-> text, how |-> how]

\* The walkthrough with the Python version left off the environment.
WalkthroughWithoutVersion ==
    << Told("https://docs.conda.io/projects/miniconda/en/latest/", "step"),
       Told("conda list", "shown"),
       Told("conda create --name your_environment_name", "shown"),
       Told("conda create --name dplpy", "step"),
       Told("conda activate your_environment_name", "shown"),
       Told("conda activate dplpy", "step"),
       Told("conda install -c channel_name package_name", "shown"),
       Told("conda deactivate", "shown"),
       Told("conda env list", "shown"),
       Told("conda list", "shown"),
       Told("pip install dplpy", "step"),
       Told("conda install notebook", "step"),
       Told("jupyter notebook", "step"),
       Told("pip install ipykernel", "before jupyter notebook"),
       Told("python -m ipykernel install --user --name dplpy --display-name \"dplpy\"",
            "before jupyter notebook") >>

\* The commands of the walkthrough, "Installing via Miniconda ..." down to
\* "Make kernel discoverable by Jupyter", in the order it prints them.
WalkthroughCommands ==
    << Told("https://docs.conda.io/projects/miniconda/en/latest/", "step"),
       Told("conda list", "shown"),
       Told("conda create --name your_environment_name", "shown"),
       Told("conda create --name dplpy python=3.11", "step"),
       Told("conda activate your_environment_name", "shown"),
       Told("conda activate dplpy", "step"),
       Told("conda install -c channel_name package_name", "shown"),
       Told("conda deactivate", "shown"),
       Told("conda env list", "shown"),
       Told("conda list", "shown"),
       Told("pip install dplpy", "step"),
       Told("conda install notebook", "step"),
       Told("jupyter notebook", "step"),
       Told("pip install ipykernel", "before jupyter notebook"),
       Told("python -m ipykernel install --user --name dplpy --display-name \"dplpy\"",
            "before jupyter notebook") >>

\* The commands of the Setup Commands Summary, in the order it prints them.
SummaryCommands ==
    << Told("https://docs.conda.io/projects/miniconda/en/latest/", "step"),
       Told("conda create --name dplpy python=3.11", "step"),
       Told("conda activate dplpy", "step"),
       Told("pip install dplpy", "step"),
       Told("conda install notebook", "step"),
       Told("jupyter notebook", "step"),
       Told("pip install ipykernel", "before jupyter notebook"),
       Told("python -m ipykernel install --user --name dplpy --display-name \"dplpy\"",
            "before jupyter notebook") >>

\* The procedure a list of commands describes: its steps in order, and, when
\* the environment is not recognised, the steps told to be run before
\* jupyter notebook just before it.
Procedure(doc, unrecognised) ==
    LET IsStep(x) == x.how = "step"
        IsBefore(x) == x.how = "before jupyter notebook"
        steps == SelectSeq(doc, IsStep)
        j == CHOOSE n \in 1..Len(steps) : steps[n].text = "jupyter notebook"
        all == IF unrecognised
               THEN SubSeq(steps, 1, j - 1) \o SelectSeq(doc, IsBefore)
                        \o SubSeq(steps, j, Len(steps))
               ELSE steps
    IN  [i \in 1..Len(all) |-> all[i].text]

\* The command a printed line makes the terminal run.
Parse(text) ==
    CASE text = "https://docs.conda.io/projects/miniconda/en/latest/" ->
            Cmd("install conda", "")
      [] text = "conda create --name dplpy python=3.11" ->
            Cmd("conda create --name", "dplpy")
      [] text = "conda activate dplpy" -> Cmd("conda activate", "dplpy")
      [] text = "pip install dplpy" -> Cmd("pip install", "dplpy")
      [] text = "conda install notebook" -> Cmd("conda install", "notebook")
      [] text = "jupyter notebook" -> Cmd("jupyter notebook", "")
      [] text = "pip install ipykernel" -> Cmd("pip install", "ipykernel")
      [] text = "python -m ipykernel install --user --name dplpy --display-name \"dplpy\"" ->
            Cmd("python -m ipykernel install --user --name", "dplpy")
      [] OTHER -> Cmd("(not a command of the machine)", text)

\* The lists of commands the walkthrough has the reader type.
WalkDocumented ==
    UNION {Prefixes([i \in 1..Len(Procedure(WalkthroughCommands, u)) |->
                        Parse(Procedure(WalkthroughCommands, u)[i])]) :
           u \in BOOLEAN}

\* The commands typed so far, for as long as they follow the walkthrough.
Walked(c) ==
    IF walk # Off /\ Append(walk, c) \in WalkDocumented
    THEN Append(walk, c) ELSE Off

\* A command ran: c, with its precondition met (ok) or not.
Ran(c, ok) ==
    /\ trace' = Typed(c)
    /\ walk' = Walked(c)
    /\ failed' = (failed \/ ~ok)
    /\ UNCHANGED <<requires, recognised, listVars, arrayVars, frameVars,
                   nameVars, kernelVars>>

\* A command whose precondition is unmet changes nothing.
Refused(c) ==
    /\ Ran(c, FALSE)
    /\ saved' = None
    /\ UNCHANGED <<conda, envs, active, pkgs, kernels, server>>

\* The terminal takes commands until the notebook server runs in it.
Prompt == server = NoServer

HasPackage(e, n) == e \in envs /\ n \in Names(pkgs[e])

\* 1. Install conda: Miniconda gives base Python, and pip with it.
InstallConda ==
    LET c == Cmd("install conda", "") IN
    /\ Prompt
    /\ IF ~conda
       THEN /\ conda' = TRUE
            /\ envs' = {Base}
            /\ active' = Base
            /\ pkgs' = [pkgs EXCEPT ![Base] = BasePackages]
            /\ saved' = None
            /\ Ran(c, TRUE)
            /\ UNCHANGED <<kernels, server>>
       ELSE Refused(c)

\* conda create --name n python=3.11
CondaCreate(n) ==
    LET c == Cmd("conda create --name", n) IN
    /\ Prompt
    /\ IF conda /\ n \notin envs
       THEN /\ envs' = envs \cup {n}
            /\ pkgs' = [pkgs EXCEPT ![n] = NewEnvPackages]
            /\ saved' = None
            /\ Ran(c, TRUE)
            /\ UNCHANGED <<conda, active, kernels, server>>
       ELSE Refused(c)

\* conda activate n: "We are now 'inside' the dplpy environment we created".
CondaActivate(n) ==
    LET c == Cmd("conda activate", n) IN
    /\ Prompt
    /\ IF conda /\ n \in envs
       THEN /\ active' = n
            /\ saved' = IF saved # None /\ ~saved.again /\ saved.env = n
                        THEN [saved EXCEPT !.again = TRUE]
                        ELSE None
            /\ Ran(c, TRUE)
            /\ UNCHANGED <<conda, envs, pkgs, kernels, server>>
       ELSE Refused(c)

\* conda deactivate.  saved keeps what the environment held when it was
\* left, until a command other than activating it again is typed.
CondaDeactivate ==
    LET c == Cmd("conda deactivate", "") IN
    /\ Prompt
    /\ IF conda /\ active # NoEnv
       THEN /\ active' = Beneath(active)
            /\ pkgs' = Deactivated(pkgs, active)
            /\ saved' = [env |-> active, avail |-> pkgs[active], again |-> FALSE]
            /\ Ran(c, TRUE)
            /\ UNCHANGED <<conda, envs, kernels, server>>
       ELSE Refused(c)

\* The packages of every environment after installing p with a active.
AfterInstall(p, a) ==
    [e \in AllEnvs |->
        IF e \in InstallTargets(a) /\ e \in envs
        THEN Installed(pkgs[e], p, requires) ELSE pkgs[e]]

\* pip install p, "working in the conda environment you created".
PipInstall(p) ==
    LET c == Cmd("pip install", p) IN
    /\ Prompt
    /\ IF HasPackage(active, "pip")
       THEN /\ pkgs' = AfterInstall(p, active)
            /\ saved' = None
            /\ Ran(c, TRUE)
            /\ UNCHANGED <<conda, envs, active, kernels, server>>
       ELSE Refused(c)

\* conda install p, "in the conda environment you created"; y at the prompt.
CondaInstall(p) ==
    LET c == Cmd("conda install", p) IN
    /\ Prompt
    /\ IF conda /\ active # NoEnv
       THEN /\ pkgs' = AfterInstall(p, active)
            /\ saved' = None
            /\ Ran(c, TRUE)
            /\ UNCHANGED <<conda, envs, active, kernels, server>>
       ELSE Refused(c)

\* python -m ipykernel install --user --name n --display-name "n"
IpykernelInstall(n) ==
    LET c == Cmd("python -m ipykernel install --user --name", n) IN
    /\ Prompt
    /\ IF HasPackage(active, "python") /\ HasPackage(active, "ipykernel")
       THEN /\ kernels' = kernels \cup {n}
            /\ saved' = None
            /\ Ran(c, TRUE)
            /\ UNCHANGED <<conda, envs, active, pkgs, server>>
       ELSE Refused(c)

\* The kernels a notebook server started now can offer: the registered ones,
\* and the active environment when Jupyter recognises it by itself.
Discoverable ==
    kernels \cup (IF recognised /\ active # NoEnv THEN {active} ELSE {})

\* jupyter notebook: "A new tab from your default internet browser will open".
JupyterNotebook ==
    LET c == JupyterNotebookCmd IN
    /\ Prompt
    /\ IF HasPackage(active, "notebook")
       THEN /\ server' = [env |-> active, kernels |-> Discoverable]
            /\ saved' = None
            /\ Ran(c, TRUE)
            /\ UNCHANGED <<conda, envs, active, pkgs, kernels>>
       ELSE Refused(c)

\* A machine on which conda has not been installed yet.
ShellInit ==
    /\ conda = FALSE
    /\ envs = {}
    /\ active = NoEnv
    /\ pkgs = [e \in AllEnvs |-> {}]
    /\ kernels = {}
    /\ server = NoServer
    /\ requires \in DepChoices
    /\ recognised \in BOOLEAN
    /\ trace = <<>>
    /\ walk = <<>>
    /\ failed = FALSE
    /\ saved = None

(***************************************************************************)
(* Introduction_to_Python.ipynb: indexing a list                           *)
(***************************************************************************)

\* my_list = [1, 2, 3, 4, 5, 6]
my_list == <<1, 2, 3, 4, 5, 6>>

\* fruits = ['orange', 'apple', 'pear', 'banana', 'kiwi', 'apple', 'banana']
fruits == <<"orange", "apple", "pear", "banana", "kiwi", "apple", "banana">>

\* The outputs the notebook records under its indexing cells.
Out_my_list_0_3 == <<1, 4>>
Out_my_list_last == 6
Out_fruits_0_3 == <<"orange", "banana">>

\* Lists of up to MaxLen items, beside the notebook's own.
MaxLen == 3
ListItems == {7, 8}
SmallLists == UNION {[1..n -> ListItems] : n \in 0..MaxLen}

\* A negative index left as it is.
NoWrap(i, n) == i

\* list_subscript: "if (i < 0) i += PyList_GET_SIZE(self)".
Wrap(i, n) == IF i < 0 THEN i + n ELSE i

\* ob_item[i]: the item i places after the first one.  A TLA+ sequence
\* numbers its items from 1.
ItemAt(q, i) == q[i + 1]

\* Indexing that counts from one: q[1] is the first item.
SubscriptFromOne(q, i) ==
    IF i < 1 \/ i > Len(q)
    THEN [raised |-> "IndexError", item |-> <<>>]
    ELSE [raised |-> "", item |-> <<q[i]>>]

\* q[i] in Python: the item, or IndexError when i, wrapped, is out of range.
Subscript(q, i) ==
    LET j == Wrap(i, Len(q)) IN
    IF j < 0 \/ j >= Len(q)
    THEN [raised |-> "IndexError", item |-> <<>>]
    ELSE [raised |-> "", item |-> <<ItemAt(q, j)>>]

\* The cell evaluates s[k].
GetItem ==
    /\ raised = "pending"
    /\ raised' = Subscript(s, k).raised
    /\ item' = Subscript(s, k).item
    /\ UNCHANGED <<s, k, shellVars, arrayVars, frameVars, nameVars, kernelVars>>

(***************************************************************************)
(* Introduction_to_Python.ipynb: np.arange and .reshape                    *)
(***************************************************************************)

\* a = np.arange(0,15,1).reshape((3, 5)), and the form its comment gives,
\* a = np.arange(15).reshape(3, 5).
CellArange == <<0, 15, 1>>
CellArangeShort == <<15>>
CellShape == <<3, 5>>

\* The output the notebook records under that cell.
Out_a ==
    << <<0, 1, 2, 3, 4>>,
       <<5, 6, 7, 8, 9>>,
       <<10, 11, 12, 13, 14>> >>

\* Arguments tried beside the cell's own.
MaxArg == 3
MaxDim == 3
ArgInts == (0 - MaxArg)..MaxArg
ArangeCalls ==
    {CellArange, CellArangeShort}
        \cup UNION {[1..n -> ArgInts] : n \in 1..3}
Dims == {CellShape} \cup ((0..MaxDim) \X (0..MaxDim))

\* A single argument taken as the start, counting from one.
OneArgumentFromOne(a) ==
    IF Len(a) = 1 THEN [start |-> 1, stop |-> a[1], step |-> 1]
    ELSE IF Len(a) = 2 THEN [start |-> a[1], stop |-> a[2], step |-> 1]
    ELSE [start |-> a[1], stop |-> a[2], step |-> a[3]]

\* arange([start,] stop[, step]): "start and step are optional".
ArangeArguments(a) ==
    IF Len(a) = 1 THEN [start |-> 0, stop |-> a[1], step |-> 1]
    ELSE IF Len(a) = 2 THEN [start |-> a[1], stop |-> a[2], step |-> 1]
    ELSE [start |-> a[1], stop |-> a[2], step |-> a[3]]

\* A length that counts the stop value in.
LengthWithStop(start, stop, step) ==
    IF step > 0
    THEN (IF stop < start THEN 0 ELSE ((stop - start) \div step) + 1)
    ELSE (IF stop > start THEN 0 ELSE ((start - stop) \div (0 - step)) + 1)

\* ceil((stop - start) / step), and 0 when that is negative.
ArangeLength(start, stop, step) ==
    IF step > 0
    THEN (IF stop <= start THEN 0 ELSE (stop - start + step - 1) \div step)
    ELSE (IF stop >= start THEN 0
          ELSE (start - stop - step - 1) \div (0 - step))

\* np.arange(*a) for integers: start, start + step, ... short of stop.
NpArange(a) ==
    LET p == ArangeArguments(a) IN
    IF p.step = 0
    THEN [raised |-> "ZeroDivisionError", value |-> <<>>]
    ELSE [raised |-> "",
          value |-> [i \in 1..ArangeLength(p.start, p.stop, p.step) |->
                        p.start + (i - 1) * p.step]]

\* Fortran order: the first index changes fastest.
ColumnMajor(d) == <<1, d[1]>>

\* C order, numpy's default: the last index changes fastest, so one step
\* along a row is one element and one step down a column is a whole row.
Strides(d) == <<d[2], 1>>

\* flat.reshape(d): the same elements under new strides, or ValueError when
\* the shape does not hold exactly Len(flat) of them.
Reshape(flat, d) ==
    IF d[1] * d[2] # Len(flat)
    THEN [raised |-> "ValueError", value |-> <<>>]
    ELSE [raised |-> "",
          value |-> [i \in 1..d[1] |-> [j \in 1..d[2] |->
              flat[(i - 1) * Strides(d)[1] + (j - 1) * Strides(d)[2] + 1]]]]

\* ndarray.reshape(*call): the shape is the one argument when a single tuple
\* is passed, .reshape((3, 5)), and the arguments themselves otherwise,
\* .reshape(3, 5).
ShapeOf(call) == IF Len(call) = 1 THEN call[1] ELSE call

\* np.arange(*args)
CallArange ==
    /\ stage = "start"
    /\ arr' = NpArange(args).value
    /\ stage' = IF NpArange(args).raised = "" THEN "arange"
                ELSE NpArange(args).raised
    /\ UNCHANGED <<args, shp, mat, dims, shapeAttr, shapeFunc>>
    /\ UNCHANGED <<shellVars, listVars, frameVars, nameVars, kernelVars>>

\* The shape with rows and columns exchanged.
ShapeSwapped(d) == <<d[2], d[1]>>

\* The shape the reshaped array holds: the one asked for.
NewShape(d) == d

\* .reshape(*shp) on its result
CallReshape ==
    /\ stage = "arange"
    /\ mat' = Reshape(arr, ShapeOf(shp)).value
    /\ dims' = IF Reshape(arr, ShapeOf(shp)).raised = ""
               THEN NewShape(ShapeOf(shp)) ELSE dims
    /\ stage' = IF Reshape(arr, ShapeOf(shp)).raised = "" THEN "reshape"
                ELSE Reshape(arr, ShapeOf(shp)).raised
    /\ UNCHANGED <<args, shp, arr, shapeAttr, shapeFunc, shellVars, listVars,
                   frameVars, nameVars, kernelVars>>

\* The array a as an object: the shape it holds and its rows.
ArrayA == [shape |-> dims, rows |-> mat]

\* a.shape: the attribute.
AttrShape(obj) == obj.shape

\* np.shape(a): "result = a.shape", for an object that has the attribute.
NpShape(obj) == AttrShape(obj)

\* The cell a.shape
ShowAttrShape ==
    /\ stage = "reshape"
    /\ shapeAttr = <<>>
    /\ shapeAttr' = AttrShape(ArrayA)
    /\ UNCHANGED <<args, shp, arr, mat, stage, dims, shapeFunc>>
    /\ UNCHANGED <<shellVars, listVars, frameVars, nameVars, kernelVars>>

\* The cell np.shape(a), the next one
ShowNpShape ==
    /\ stage = "reshape"
    /\ shapeAttr # <<>>
    /\ shapeFunc = <<>>
    /\ shapeFunc' = NpShape(ArrayA)
    /\ UNCHANGED <<args, shp, arr, mat, stage, dims, shapeAttr>>
    /\ UNCHANGED <<shellVars, listVars, frameVars, nameVars, kernelVars>>

(***************************************************************************)
(* Introduction_to_Python.ipynb: rows of a DataFrame                       *)
(***************************************************************************)

\* text_data = pd.read_csv('myData.csv'), as the notebook shows it: the row
\* labels, the column names and the rows.
text_data ==
    [index |-> <<0, 1, 2, 3, 4>>,
     columns |-> <<"position", "score", "accuracy">>,
     rows |-> << <<1, 43, 3>>,
                 <<2, 21, 6>>,
                 <<3, 39, 4>>,
                 <<4, 11, 2>>,
                 <<5, 47, 3>> >>]

\* The outputs the notebook records under text_data[0:2] and under
\* text_data.loc[0:2,:].
Out_rows_0_2 ==
    [index |-> <<0, 1>>,
     columns |-> <<"position", "score", "accuracy">>,
     rows |-> << <<1, 43, 3>>,
                 <<2, 21, 6>> >>]
Out_loc_0_2 ==
    [index |-> <<0, 1, 2>>,
     columns |-> <<"position", "score", "accuracy">>,
     rows |-> << <<1, 43, 3>>,
                 <<2, 21, 6>>,
                 <<3, 39, 4>> >>]

\* No DataFrame: what sliced and located hold before their cell has run.
NoFrame == [index |-> <<>>, columns |-> <<>>, rows |-> <<>>]

\* The rows of df at positions from..to, counted from 1, labels kept.
Take(df, from, to) ==
    [index |-> SubSeq(df.index, from, to),
     columns |-> df.columns,
     rows |-> SubSeq(df.rows, from, to)]

\* The positions, counted from 1 and in order, of the labels of df in keep.
RECURSIVE Kept(_, _, _)
Kept(labels, keep, from) ==
    IF from > Len(labels) THEN <<>>
    ELSE (IF labels[from] \in keep THEN <<from>> ELSE <<>>)
            \o Kept(labels, keep, from + 1)

\* df[mask]: the rows of df whose label is in keep, in their order, as the
\* cell text_data[text_data["accuracy"]<=3] leaves labels 0, 3 and 4.
Filter(df, keep) ==
    LET at == Kept(df.index, keep, 1) IN
    [index |-> [i \in 1..Len(at) |-> df.index[at[i]]],
     columns |-> df.columns,
     rows |-> [i \in 1..Len(at) |-> df.rows[at[i]]]]

\* Frames tried beside text_data: its rows under up to MaxRows of its labels.
MaxRows == 3
Frames ==
    {text_data} \cup
    {Filter(text_data, keep) :
        keep \in {x \in SUBSET {0, 1, 2, 3, 4} : Cardinality(x) <= MaxRows}}

\* Slice bounds tried: from below the first row to above the last.
Bounds == (0 - Len(text_data.rows) - 1)..(Len(text_data.rows) + 1)

\* PySlice_AdjustIndices: a negative bound counts from the end, and a bound
\* outside the sequence stops at its end.
Adjust(i, n) ==
    IF i < 0 THEN (IF i + n < 0 THEN 0 ELSE i + n)
    ELSE (IF i > n THEN n ELSE i)

\* A slice that takes the row at the stop position too.
RowSliceWithStop(df, start, stop) ==
    LET n == Len(df.rows)
        b == Adjust(start, n)
        e == Adjust(stop, n)
    IN  Take(df, b + 1, IF e + 1 > n THEN n ELSE e + 1)

\* df[start:stop]: an integer slice selects rows by position, start
\* included and stop excluded; positions count from 0.
RowSlice(df, start, stop) ==
    LET n == Len(df.rows)
        b == Adjust(start, n)
        e == Adjust(stop, n)
    IN  Take(df, b + 1, e)

\* How many labels are below x (searchsorted, side='left').
Below(labels, x) == Cardinality({i \in 1..Len(labels) : labels[i] < x})

\* How many labels are at or below x (searchsorted, side='right').
UpTo(labels, x) == Cardinality({i \in 1..Len(labels) : labels[i] <= x})

\* The end of a label slice found as Python finds the end of a position
\* slice: the label itself left out.
LocEndExcluded(labels, x) == Below(labels, x)

\* Index.slice_locs: where a label slice ends in a sorted index, the end
\* label included.
LocEnd(labels, x) == UpTo(labels, x)

\* df.loc[first:last, :]: rows by label, both ends included, every column.
LocSlice(df, first, last) ==
    Take(df, Below(df.index, first) + 1, LocEnd(df.index, last))

\* The cell text_data[0:2], for frame[lo:hi]
GetRows ==
    /\ sliced = NoFrame
    /\ sliced' = RowSlice(frame, lo, hi)
    /\ UNCHANGED <<frame, lo, hi, located, shellVars, listVars, arrayVars,
                   nameVars, kernelVars>>

\* The cell text_data.loc[0:2,:], for frame.loc[lo:hi,:]
LocRows ==
    /\ located = NoFrame
    /\ located' = LocSlice(frame, lo, hi)
    /\ UNCHANGED <<frame, lo, hi, sliced, shellVars, listVars, arrayVars,
                   nameVars, kernelVars>>

(***************************************************************************)
(* Both notebooks: the names their code cells bind and read                *)
(***************************************************************************)

\* A statement of a cell: the names it reads, then the names it binds.
Reads(names) == [reads |-> names, binds |-> {}]
Binds(name, names) == [reads |-> names, binds |-> {name}]

\* The code cells of Introduction_to_Python.ipynb, top to bottom, each the
\* sequence of its statements.
IntroCells ==
    << <<Reads({})>>,                                        \* 3 + 4
       <<Binds("a", {}), Binds("b", {}), Reads({"a", "b"})>>,
       <<Binds("c", {"b", "a"}), Reads({"print", "c"})>>,
       <<Binds("my_list", {}), Reads({"my_list"})>>,
       <<Reads({"my_list"})>>,                               \* my_list[0], ...
       <<Reads({"my_list"})>>,                               \* my_list[-1]
       <<Binds("fruits", {}), Reads({"fruits"})>>,
       <<Binds("np", {})>>,                                  \* import numpy
       <<Binds("my_array", {"np"}), Reads({"my_array"})>>,
       <<Binds("a", {"np"}), Reads({"a"})>>,                 \* a = np.arange
       <<Reads({"a"})>>,                                     \* a.shape
       <<Reads({"np", "a"})>>,                               \* np.shape(a)
       <<Binds("pd", {})>>,                                  \* import pandas
       <<Binds("text_data", {"pd"}), Reads({"text_data"})>>,
       <<Reads({"text_data"})>>,                             \* .columns
       <<Reads({"text_data"})>>,                             \* .index
       <<Reads({"text_data"})>>,                             \* .describe()
       <<Reads({"text_data"})>>,                             \* ["accuracy"]
       <<Binds("accuracy", {"text_data"}), Reads({"accuracy"})>>,
       <<Reads({"text_data"})>>,                             \* [0:2]
       <<Reads({"text_data"})>>,                             \* .loc[0:2,:]
       <<Reads({"text_data"})>>,                             \* .loc[:,[...]]
       <<Reads({"text_data"})>>,                             \* .iloc[:,1]
       <<Reads({"text_data"})>>,                             \* [... <= 3]
       <<Reads({"text_data", "np"}), Reads({"text_data"})>>, \* .iloc[2,1] =
       <<Reads({"text_data"})>> >>                           \* .dropna

\* The code cells of bristlecone_example.ipynb as the file lists them.
BristleconeListed ==
    << <<Binds("pd", {}), Binds("plt", {}), Reads({}), Reads({}),
         Reads({"plt"}), Reads({"plt"})>>,
       << >>,                                                \* comments only
       <<Binds("dpl", {}), Reads({"print", "dpl"}), Reads({"print", "dpl"})>>,
       <<Binds("ca533", {"dpl"})>>,                          \* dpl.readers
       <<Reads({"ca533"})>>,
       <<Binds("ca667", {"dpl"}), Reads({"ca667"})>>,
       <<Reads({"print", "ca533"}), Reads({"print", "ca667"})>>,
       <<Binds("shpcmp", {"pd", "ca533", "ca667"}), Reads({"shpcmp"})>>,
       <<Reads({"dpl", "ca533"})>>,                          \* dpl.summary
       <<Reads({"dpl", "ca533"})>>,                          \* dpl.stats
       <<Reads({"dpl", "ca533"})>>,                          \* dpl.report
       <<Reads({"dpl", "ca533"}), Reads({"dpl", "ca533"})>>, \* dpl.plot
       <<Binds("ca533_rwi", {"dpl", "ca533"})>>,             \* dpl.detrend
       <<Binds("cam161_spline67", {"dpl", "ca533"}),
         Binds("cam161_negex", {"dpl", "ca533"})>>,
       <<Binds("ca533_crn_std", {"dpl", "ca533_rwi"}),       \* dpl.chron
         Binds("ca533_crn_res", {"dpl", "ca533_rwi"})>>,
       <<Reads({"dpl", "ca533_rwi"})>>,                      \* dpl.xdate
       <<Reads({"dpl", "ca533_rwi"})>> >>                    \* dpl.series_corr

\* The bristlecone cells with dpl.chron moved above dpl.detrend.
BristleconeChronFirst ==
    [i \in 1..Len(BristleconeListed) |->
        IF i = 13 THEN BristleconeListed[15]
        ELSE IF i = 15 THEN BristleconeListed[13]
        ELSE BristleconeListed[i]]

\* The code cells of bristlecone_example.ipynb, top to bottom.
BristleconeCells == BristleconeListed

Books == {"Introduction_to_Python", "bristlecone_example"}

Cells(b) ==
    IF b = "Introduction_to_Python" THEN IntroCells ELSE BristleconeCells

\* The names a fresh kernel has bound already, such as print.
Builtins == {"print"}

\* The statements of a cell from the i-th on, run with the names b bound: a
\* statement that reads an unbound name raises NameError and ends the cell.
RECURSIVE RunStatements(_, _, _)
RunStatements(stmts, i, b) ==
    IF i > Len(stmts) THEN [bound |-> b, error |-> FALSE]
    ELSE IF ~(stmts[i].reads \subseteq b) THEN [bound |-> b, error |-> TRUE]
    ELSE RunStatements(stmts, i + 1, b \cup stmts[i].binds)

\* What ran becomes when cell i runs: the next cell down keeps the count.
Counted(i) == IF ran >= 0 /\ i = ran + 1 THEN i ELSE -1

\* The reader runs cell i of the notebook, whichever cell that is.
RunCell(i) ==
    LET r == RunStatements(Cells(book)[i], 1, bound) IN
    /\ bound' = r.bound
    /\ nameError' = (nameError \/ r.error)
    /\ ran' = Counted(i)
    /\ UNCHANGED <<book, shellVars, listVars, arrayVars, frameVars, kernelVars>>

(***************************************************************************)
(* Introduction_to_Python.ipynb: the values its cells compute              *)
(***************************************************************************)

\* The decimal digits as characters; a text is a sequence of characters.
DigitChars == <<"0", "1", "2", "3", "4", "5", "6", "7", "8", "9">>
DigitValue(ch) == CHOOSE d \in 0..9 : DigitChars[d + 1] = ch

\* int(text): a decimal numeral read digit by digit.
RECURSIVE ParseInt(_)
ParseInt(chars) ==
    IF chars = <<>> THEN 0
    ELSE 10 * ParseInt(SubSeq(chars, 1, Len(chars) - 1))
            + DigitValue(chars[Len(chars)])

\* str(n) for a natural number n.
RECURSIVE Str(_)
Str(n) ==
    IF n < 10 THEN <<DigitChars[n + 1]>>
    ELSE Str(n \div 10) \o <<DigitChars[(n % 10) + 1]>>

\* print(x): the text of x and a newline, on stdout.
PrintLine(x) == Str(x) \o <<"\n">>

\* myData.csv, the file behind the table shown under read_csv: a header
\* line and five lines of numerals.
myData_csv ==
    << <<"position", "score", "accuracy">>,
       << <<"1">>, <<"4", "3">>, <<"3">> >>,
       << <<"2">>, <<"2", "1">>, <<"6">> >>,
       << <<"3">>, <<"3", "9">>, <<"4">> >>,
       << <<"4">>, <<"1", "1">>, <<"2">> >>,
       << <<"5">>, <<"4", "7">>, <<"3">> >> >>

\* A DataFrame in the kernel: the frame it displays and its columns' dtypes.
\* An int64 column holds integers; a float64 column holds Float(x) or NaN.
NaN == <<>>
Float(x) == <<x>>

\* pd.read_csv(file): the first line names the columns, each further line is
\* a row of integers, and the rows are labelled 0, 1, 2, ...
ReadCsv(file) ==
    LET n == Len(file) - 1 IN
    [frame |-> [index |-> [i \in 1..n |-> i - 1],
                columns |-> file[1],
                rows |-> [i \in 1..n |->
                            [j \in 1..Len(file[i + 1]) |->
                                ParseInt(file[i + 1][j])]]],
     dtypes |-> [j \in 1..Len(file[1]) |-> "int64"]]

\* df.columns, and df.index for the default labels of read_csv.
ColumnsOf(df) == [values |-> df.frame.columns, dtype |-> "object"]
IndexOf(df) == [start |-> 0, stop |-> Len(df.frame.index), step |-> 1]

\* The place of a column among the columns, counted from 1.
ColumnNumber(df, name) ==
    CHOOSE j \in 1..Len(df.frame.columns) : df.frame.columns[j] = name

\* The j-th column as a Series: labels, values, name and dtype.
ColumnAt(df, j) ==
    [index |-> df.frame.index,
     values |-> [i \in 1..Len(df.frame.rows) |-> df.frame.rows[i][j]],
     name |-> df.frame.columns[j],
     dtype |-> df.dtypes[j]]

\* df[name], and df.iloc[:, c] with c counted from 0.
Column(df, name) == ColumnAt(df, ColumnNumber(df, name))
ILocColumn(df, c) == ColumnAt(df, c + 1)

\* df.loc[:, names]: every row, the named columns in the order named.
LocColumns(df, names) ==
    [index |-> df.frame.index,
     columns |-> names,
     rows |-> [i \in 1..Len(df.frame.rows) |->
                 [j \in 1..Len(names) |->
                     df.frame.rows[i][ColumnNumber(df, names[j])]]]]

\* series <= x: the labels where it holds.
LessEqual(series, x) ==
    {series.index[i] : i \in {j \in 1..Len(series.values) :
                                  series.values[j] <= x}}

\* df.iloc[r, c] = np.nan, r and c counted from 0: an int64 column becomes
\* float64 to hold the NaN.
ILocSetNaN(df, r, c) ==
    LET cast == [i \in 1..Len(df.frame.rows) |->
                    [j \in 1..Len(df.frame.columns) |->
                        IF j = c + 1 /\ df.dtypes[j] = "int64"
                        THEN Float(df.frame.rows[i][j])
                        ELSE df.frame.rows[i][j]]]
    IN  [frame |-> [index |-> df.frame.index,
                    columns |-> df.frame.columns,
                    rows |-> [cast EXCEPT ![r + 1][c + 1] = NaN]],
         dtypes |-> [df.dtypes EXCEPT ![c + 1] = "float64"]]

\* Whether the cell in row i, column j (from 1) is missing.
IsNa(df, i, j) == df.dtypes[j] = "float64" /\ df.frame.rows[i][j] = NaN

\* df.dropna(how="any"): the rows with no missing cell.
DropNa(df) ==
    Filter(df.frame,
           {df.frame.index[i] : i \in {x \in 1..Len(df.frame.rows) :
               \A j \in 1..Len(df.frame.columns) : ~IsNa(df, x, j)}})

\* describe() shows six decimal places: statistics are held in millionths.
Micro == 1000000

RECURSIVE Sum(_)
Sum(q) == IF q = <<>> THEN 0 ELSE Head(q) + Sum(Tail(q))

SumOfSquares(q) == Sum([i \in 1..Len(q) |-> q[i] * q[i]])

\* The values of q in ascending order.
RECURSIVE Sorted(_)
Sorted(q) ==
    IF q = <<>> THEN <<>>
    ELSE LET m == CHOOSE i \in 1..Len(q) : \A j \in 1..Len(q) : q[i] <= q[j]
         IN  <<q[m]>> \o Sorted(SubSeq(q, 1, m - 1) \o SubSeq(q, m + 1, Len(q)))

\* The mean, in millionths, rounded to the nearest.
Mean(q) == (2 * Sum(q) * Micro + Len(q)) \div (2 * Len(q))

\* A quartile in millionths: the value at (n - 1) quarter / 4 places after
\* the least, interpolated linearly between its neighbours.
Quantile(q, quarter) ==
    LET x == Sorted(q)
        i == ((Len(q) - 1) * quarter) \div 4
        f == ((Len(q) - 1) * quarter) % 4
    IN  IF f = 0 THEN x[i + 1] * Micro
        ELSE x[i + 1] * Micro + f * (x[i + 2] - x[i + 1]) * (Micro \div 4)

\* The digits of a natural number in base 100, the most significant first.
RECURSIVE Pairs(_)
Pairs(n) == IF n < 100 THEN <<n>> ELSE Pairs(n \div 100) \o <<n % 100>>

\* The next digit of a square root: the largest d with (20 p + d) d <= r.
RootDigit(p, r) ==
    CHOOSE d \in 0..9 :
        /\ (20 * p + d) * d <= r
        /\ d = 9 \/ (20 * p + d + 1) * (d + 1) > r

\* The square root digit by digit: p is the root so far and r what is left
\* under it; whole holds the pairs of digits still to bring down before the
\* decimal point, and rem / den what follows it, brought down for the given
\* number of decimal places.  The last place is rounded to the nearest.
RECURSIVE RootFrom(_, _, _, _, _, _)
RootFrom(p, r, whole, rem, den, places) ==
    IF whole # <<>>
    THEN LET x == 100 * r + Head(whole)
             d == RootDigit(p, x)
         IN  RootFrom(10 * p + d, x - (20 * p + d) * d, Tail(whole),
                      rem, den, places)
    ELSE IF places > 0
    THEN LET x == 100 * r + ((100 * rem) \div den)
             d == RootDigit(p, x)
         IN  RootFrom(10 * p + d, x - (20 * p + d) * d, <<>>,
                      (100 * rem) % den, den, places - 1)
    ELSE IF r > p \/ (r = p /\ 4 * rem >= den) THEN p + 1 ELSE p

\* The sample standard deviation (ddof = 1) in millionths: the square root
\* of (n sum(x^2) - sum(x)^2) / (n (n - 1)).
Std(q) ==
    LET n == Len(q) IN
    RootFrom(0, 0, Pairs((n * SumOfSquares(q) - Sum(q) * Sum(q))
                            \div (n * (n - 1))),
             (n * SumOfSquares(q) - Sum(q) * Sum(q)) % (n * (n - 1)),
             n * (n - 1), 6)

\* df.describe() for integer columns: eight statistics of each column.
Describe(df) ==
    LET col(j) == ColumnAt(df, j).values
        each(stat(_)) == [j \in 1..Len(df.frame.columns) |-> stat(col(j))]
        cnt(q) == Len(q) * Micro
        least(q) == Sorted(q)[1] * Micro
        q1(q) == Quantile(q, 1)
        q2(q) == Quantile(q, 2)
        q3(q) == Quantile(q, 3)
        most(q) == Sorted(q)[Len(q)] * Micro
    IN  [index |-> <<"count", "mean", "std", "min", "25%", "50%", "75%",
                     "max">>,
         columns |-> df.frame.columns,
         rows |-> <<each(cnt), each(Mean), each(Std), each(least), each(q1),
                    each(q2), each(q3), each(most)>>]

\* np.array(rows) for a list of equal rows.
CellArray == << <<1, 2, 3, 4>>, <<5, 6, 7, 8>>, <<9, 10, 11, 12>> >>
NpArray(rows) == [shape |-> <<Len(rows), Len(rows[1])>>, rows |-> rows]

\* The namespace n with name bound to v.
Bind(n, name, v) ==
    [x \in DOMAIN n \cup {name} |-> IF x = name THEN v ELSE n[x]]

\* The outputs of a cell: the value of its last expression, labelled with
\* the execution count c, or the text it printed, or none.
Result(c, v) ==
    <<[output_type |-> "execute_result", execution_count |-> c, data |-> v]>>
Stream(text) ==
    <<[output_type |-> "stream", name |-> "stdout", text |-> text]>>
NoOutputs == <<>>

\* Code cell i of Introduction_to_Python.ipynb run as execution c in the
\* namespace n: the namespace it leaves and the outputs it shows.
CellResult(i, n, c) ==
    CASE i = 1 -> [ns |-> n, outputs |-> Result(c, 3 + 4)]
      [] i = 2 ->
            LET n1 == Bind(Bind(n, "a", 3), "b", 4) IN
            [ns |-> n1, outputs |-> Result(c, n1["a"] + n1["b"])]
      [] i = 3 ->
            LET n1 == Bind(n, "c", n["b"] * n["a"]) IN
            [ns |-> n1, outputs |-> Stream(PrintLine(n1["c"]))]
      [] i = 4 ->
            LET n1 == Bind(n, "my_list", my_list) IN
            [ns |-> n1, outputs |-> Result(c, n1["my_list"])]
      [] i = 5 ->
            [ns |-> n,
             outputs |-> Result(c, <<Subscript(n["my_list"], 0).item[1],
                                     Subscript(n["my_list"], 3).item[1]>>)]
      [] i = 6 ->
            [ns |-> n,
             outputs |-> Result(c, Subscript(n["my_list"], 0 - 1).item[1])]
      [] i = 7 ->
            LET n1 == Bind(n, "fruits", fruits) IN
            [ns |-> n1,
             outputs |-> Result(c, <<Subscript(n1["fruits"], 0).item[1],
                                     Subscript(n1["fruits"], 3).item[1]>>)]
      [] i = 8 -> [ns |-> Bind(n, "np", "numpy"), outputs |-> NoOutputs]
      [] i = 9 ->
            LET n1 == Bind(n, "my_array", NpArray(CellArray)) IN
            [ns |-> n1, outputs |-> Result(c, n1["my_array"].rows)]
      [] i = 10 ->
            LET d == ShapeOf(<<CellShape>>)
                n1 == Bind(n, "a",
                           [shape |-> NewShape(d),
                            rows |-> Reshape(NpArange(CellArange).value,
                                             d).value])
            IN  [ns |-> n1, outputs |-> Result(c, n1["a"].rows)]
      [] i = 11 -> [ns |-> n, outputs |-> Result(c, AttrShape(n["a"]))]
      [] i = 12 -> [ns |-> n, outputs |-> Result(c, NpShape(n["a"]))]
      [] i = 13 -> [ns |-> Bind(n, "pd", "pandas"), outputs |-> NoOutputs]
      [] i = 14 ->
            LET n1 == Bind(n, "text_data", ReadCsv(myData_csv)) IN
            [ns |-> n1, outputs |-> Result(c, n1["text_data"].frame)]
      [] i = 15 ->
            [ns |-> n, outputs |-> Result(c, ColumnsOf(n["text_data"]))]
      [] i = 16 ->
            [ns |-> n, outputs |-> Result(c, IndexOf(n["text_data"]))]
      [] i = 17 ->
            [ns |-> n, outputs |-> Result(c, Describe(n["text_data"]))]
      [] i = 18 ->
            [ns |-> n,
             outputs |-> Result(c, Column(n["text_data"], "accuracy"))]
      [] i = 19 ->
            LET n1 == Bind(n, "accuracy",
                           Column(n["text_data"], "accuracy"))
            IN  [ns |-> n1, outputs |-> Result(c, n1["accuracy"])]
      [] i = 20 ->
            [ns |-> n,
             outputs |-> Result(c, RowSlice(n["text_data"].frame, 0, 2))]
      [] i = 21 ->
            [ns |-> n,
             outputs |-> Result(c, LocSlice(n["text_data"].frame, 0, 2))]
      [] i = 22 ->
            [ns |-> n,
             outputs |-> Result(c, LocColumns(n["text_data"],
                                              <<"position", "accuracy">>))]
      [] i = 23 ->
            [ns |-> n, outputs |-> Result(c, ILocColumn(n["text_data"], 1))]
      [] i = 24 ->
            [ns |-> n,
             outputs |->
                Result(c, Filter(n["text_data"].frame,
                                 LessEqual(Column(n["text_data"],
                                                  "accuracy"), 3)))]
      [] i = 25 ->
            LET n1 == Bind(n, "text_data", ILocSetNaN(n["text_data"], 2, 1))
            IN  [ns |-> n1, outputs |-> Result(c, n1["text_data"].frame)]
      [] i = 26 ->
            [ns |-> n, outputs |-> Result(c, DropNa(n["text_data"]))]

\* What the notebook file records under its code cells, top to bottom: the
\* execution count of each cell and its outputs.
Out_my_array == << <<1, 2, 3, 4>>, <<5, 6, 7, 8>>, <<9, 10, 11, 12>> >>
Out_columns ==
    [values |-> <<"position", "score", "accuracy">>, dtype |-> "object"]
Out_index == [start |-> 0, stop |-> 5, step |-> 1]
Out_describe ==
    [index |-> <<"count", "mean", "std", "min", "25%", "50%", "75%", "max">>,
     columns |-> <<"position", "score", "accuracy">>,
     rows |-> << <<5000000, 5000000, 5000000>>,
                 <<3000000, 32200000, 3600000>>,
                 <<1581139, 15466092, 1516575>>,
                 <<1000000, 11000000, 2000000>>,
                 <<2000000, 21000000, 3000000>>,
                 <<3000000, 39000000, 3000000>>,
                 <<4000000, 43000000, 4000000>>,
                 <<5000000, 47000000, 6000000>> >>]
Out_accuracy ==
    [index |-> <<0, 1, 2, 3, 4>>,
     values |-> <<3, 6, 4, 2, 3>>,
     name |-> "accuracy",
     dtype |-> "int64"]
Out_position_accuracy ==
    [index |-> <<0, 1, 2, 3, 4>>,
     columns |-> <<"position", "accuracy">>,
     rows |-> << <<1, 3>>, <<2, 6>>, <<3, 4>>, <<4, 2>>, <<5, 3>> >>]
Out_score ==
    [index |-> <<0, 1, 2, 3, 4>>,
     values |-> <<43, 21, 39, 11, 47>>,
     name |-> "score",
     dtype |-> "int64"]
Out_accuracy_le_3 ==
    [index |-> <<0, 3, 4>>,
     columns |-> <<"position", "score", "accuracy">>,
     rows |-> << <<1, 43, 3>>,
                 <<4, 11, 2>>,
                 <<5, 47, 3>> >>]
Out_nan ==
    [index |-> <<0, 1, 2, 3, 4>>,
     columns |-> <<"position", "score", "accuracy">>,
     rows |-> << <<1, Float(43), 3>>,
                 <<2, Float(21), 6>>,
                 <<3, NaN, 4>>,
                 <<4, Float(11), 2>>,
                 <<5, Float(47), 3>> >>]
Out_dropna ==
    [index |-> <<0, 1, 3, 4>>,
     columns |-> <<"position", "score", "accuracy">>,
     rows |-> << <<1, Float(43), 3>>,
                 <<2, Float(21), 6>>,
                 <<4, Float(11), 2>>,
                 <<5, Float(47), 3>> >>]
Recorded ==
    << [execution_count |-> 2, outputs |-> Result(2, 7)],
       [execution_count |-> 3, outputs |-> Result(3, 7)],
       [execution_count |-> 4, outputs |-> Stream(<<"1", "2", "\n">>)],
       [execution_count |-> 5, outputs |-> Result(5, <<1, 2, 3, 4, 5, 6>>)],
       [execution_count |-> 6, outputs |-> Result(6, Out_my_list_0_3)],
       [execution_count |-> 7, outputs |-> Result(7, Out_my_list_last)],
       [execution_count |-> 8, outputs |-> Result(8, Out_fruits_0_3)],
       [execution_count |-> 9, outputs |-> NoOutputs],
       [execution_count |-> 10, outputs |-> Result(10, Out_my_array)],
       [execution_count |-> 11, outputs |-> Result(11, Out_a)],
       [execution_count |-> 12, outputs |-> Result(12, <<3, 5>>)],
       [execution_count |-> 13, outputs |-> Result(13, <<3, 5>>)],
       [execution_count |-> 14, outputs |-> NoOutputs],
       [execution_count |-> 15, outputs |-> Result(15, text_data)],
       [execution_count |-> 16, outputs |-> Result(16, Out_columns)],
       [execution_count |-> 17, outputs |-> Result(17, Out_index)],
       [execution_count |-> 18, outputs |-> Result(18, Out_describe)],
       [execution_count |-> 19, outputs |-> Result(19, Out_accuracy)],
       [execution_count |-> 20, outputs |-> Result(20, Out_accuracy)],
       [execution_count |-> 21, outputs |-> Result(21, Out_rows_0_2)],
       [execution_count |-> 22, outputs |-> Result(22, Out_loc_0_2)],
       [execution_count |-> 23, outputs |-> Result(23, Out_position_accuracy)],
       [execution_count |-> 24, outputs |-> Result(24, Out_score)],
       [execution_count |-> 25, outputs |-> Result(25, Out_accuracy_le_3)],
       [execution_count |-> 26, outputs |-> Result(26, Out_nan)],
       [execution_count |-> 27, outputs |-> Result(27, Out_dropna)] >>

\* The kernel executes code cell i: the counter goes up by one, and the
\* cell's outputs replace whatever the notebook held under it.
Execute(i) ==
    LET r == RunStatements(IntroCells[i], 1, bound)
        e == CellResult(i, user_ns, count + 1)
    IN  /\ count' = count + 1
        /\ bound' = r.bound
        /\ nameError' = (nameError \/ r.error)
        /\ user_ns' = e.ns
        /\ outs' = [j \in 1..i |->
                      IF j = i THEN [execution_count |-> count + 1,
                                     outputs |-> e.outputs]
                      ELSE outs[j]]
        /\ cell' = i
        /\ UNCHANGED <<book, shellVars, listVars, arrayVars, frameVars>>

\* Runs of a cell over again, beyond one run of each cell.
MaxAgain == 2

\* The reader runs the next cell down.
RunNextCell ==
    /\ cell < Len(IntroCells)
    /\ Execute(cell + 1)
    /\ ran' = Counted(cell + 1)

\* The reader runs the cell just run once more.
RunCellAgain ==
    /\ cell >= 1
    /\ count - cell < MaxAgain
    /\ Execute(cell)
    /\ ran' = 0 - 1

(***************************************************************************)
(* Specifications                                                          *)
(***************************************************************************)

ShellIdle ==
    /\ ShellInit
    /\ requires = NoDeps
    /\ recognised = FALSE

ListIdle == s = <<>> /\ k = 0 /\ item = <<>> /\ raised = "pending"

ArrayIdle ==
    /\ args = CellArange
    /\ shp = <<CellShape>>
    /\ arr = <<>>
    /\ mat = <<>>
    /\ stage = "start"
    /\ dims = <<>>
    /\ shapeAttr = <<>>
    /\ shapeFunc = <<>>

FrameIdle ==
    /\ frame = text_data
    /\ lo = 0
    /\ hi = 0
    /\ sliced = NoFrame
    /\ located = NoFrame

NamesIdle ==
    /\ book = "Introduction_to_Python"
    /\ bound = Builtins
    /\ ran = 0
    /\ nameError = FALSE

\* A fresh kernel: nothing executed, nothing bound, nothing shown.
KernelIdle ==
    /\ count = 0
    /\ cell = 0
    /\ user_ns = <<>>
    /\ outs = <<>>

\* The commands of the installation guide, typed in any order.
Init ==
    ShellInit /\ ListIdle /\ ArrayIdle /\ FrameIdle /\ NamesIdle /\ KernelIdle

Next ==
    \/ InstallConda
    \/ \E n \in EnvNames : CondaCreate(n)
    \/ \E n \in AllEnvs : CondaActivate(n)
    \/ CondaDeactivate
    \/ \E p \in Installable : PipInstall(p)
    \/ \E p \in Installable : CondaInstall(p)
    \/ IpykernelInstall("dplpy")
    \/ JupyterNotebook

Spec == Init /\ [][Next]_vars

\* s[k] for the notebook's lists and for every small list, at every index
\* from one before the first valid one to one after the last.
ListInit ==
    /\ ShellIdle
    /\ NamesIdle
    /\ KernelIdle
    /\ ArrayIdle
    /\ FrameIdle
    /\ \/ s \in {my_list} \cup SmallLists
       \/ s = fruits
    /\ k \in (0 - Len(s) - 1)..(Len(s) + 1)
    /\ item = <<>>
    /\ raised = "pending"

ListNext == GetItem

SpecList == ListInit /\ [][ListNext]_vars

\* np.arange(*args).reshape(*shp) for the cell's arguments and small ones.
ArrayInit ==
    /\ ShellIdle
    /\ NamesIdle
    /\ KernelIdle
    /\ ListIdle
    /\ FrameIdle
    /\ args \in ArangeCalls
    /\ \/ shp \in Dims
       \/ shp \in {<<d>> : d \in Dims}
    /\ arr = <<>>
    /\ mat = <<>>
    /\ stage = "start"
    /\ dims = <<>>
    /\ shapeAttr = <<>>
    /\ shapeFunc = <<>>

ArrayNext == CallArange \/ CallReshape \/ ShowAttrShape \/ ShowNpShape

SpecArray == ArrayInit /\ [][ArrayNext]_vars

\* frame[lo:hi] and frame.loc[lo:hi,:] for text_data and for frames that hold
\* some of its rows, at every pair of bounds.
FrameInit ==
    /\ ShellIdle
    /\ NamesIdle
    /\ KernelIdle
    /\ ListIdle
    /\ ArrayIdle
    /\ frame \in Frames
    /\ lo \in Bounds
    /\ hi \in Bounds
    /\ sliced = NoFrame
    /\ located = NoFrame

FrameNext == GetRows \/ LocRows

SpecFrame == FrameInit /\ [][FrameNext]_vars

\* A fresh kernel on either notebook, its cells run in any order.
NamesInit ==
    /\ ShellIdle
    /\ ListIdle
    /\ ArrayIdle
    /\ FrameIdle
    /\ KernelIdle
    /\ book \in Books
    /\ bound = Builtins
    /\ ran = 0
    /\ nameError = FALSE

NamesNext == \E i \in 1..Len(Cells(book)) : RunCell(i)

SpecNames == NamesInit /\ [][NamesNext]_vars

\* A fresh kernel on Introduction_to_Python.ipynb, its cells run from the top
\* down, any of them perhaps more than once.
IntroInit ==
    /\ ShellIdle
    /\ ListIdle
    /\ ArrayIdle
    /\ FrameIdle
    /\ NamesIdle
    /\ KernelIdle

IntroNext == RunNextCell \/ RunCellAgain

SpecIntro == IntroInit /\ [][IntroNext]_vars

(***************************************************************************)
(* Claims about dplpy_installation.md                                      *)
(***************************************************************************)

\* The state the summary promises: the environment dplpy exists and is
\* active, dplpy and notebook are installed in it, and the notebook server
\* was launched from it.
SummaryReady ==
    /\ "dplpy" \in envs
    /\ active = "dplpy"
    /\ HasPackage("dplpy", "dplpy")
    /\ HasPackage("dplpy", "notebook")
    /\ server.env = "dplpy"

\* C1: typed in the listed order on a machine without conda, the six commands
\* of the Setup Commands Summary never run with a precondition unmet, and
\* after the sixth the environment dplpy exists and is active, holds dplpy
\* and notebook, and the notebook server has been launched from it.
C1_SummarySucceeds ==
    /\ trace \in Prefixes(SetupCommandsSummary) => ~failed
    /\ trace = SetupCommandsSummary => SummaryReady

C1_SummaryDone == trace = SetupCommandsSummary /\ server # NoServer

AnyInstall == \E p \in Installable : PipInstall(p) \/ CondaInstall(p)

C3_ReactivateRestores ==
    saved # None =>
        /\ pkgs[saved.env] = saved.avail
        /\ saved.again => active = saved.env /\ pkgs[active] = saved.avail

C3_Reactivated ==
    /\ saved.again
    /\ saved.env = "dplpy"
    /\ <<"python", PythonVersion>> \in saved.avail
    /\ "dplpy" \in Names(saved.avail)

\* C4: when `pip install dplpy` runs in an active environment that has pip,
\* that environment then holds dplpy and everything dplpy requires, directly
\* or not, and its package set is closed under the dependency relation.
C4_DplpyWithDependencies ==
    [][PipInstall("dplpy") /\ HasPackage(active, "pip") =>
        /\ Closure({"dplpy"}, requires) \subseteq Names(pkgs'[active])
        /\ \A n \in Names(pkgs'[active]) :
              requires[n] \subseteq Names(pkgs'[active])]_vars

C4_DplpyInstalled ==
    /\ active = "dplpy"
    /\ requires["dplpy"] = {"pandas"}
    /\ {"dplpy", "pandas", "numpy"} \subseteq Names(pkgs["dplpy"])

Position(q, c) == CHOOSE i \in 1..Len(q) : q[i] = c

\* C5: the summary with the fallback runs `pip install ipykernel`, then
\* `python -m ipykernel install --user --name dplpy`, then `jupyter notebook`;
\* typed in that order no command runs with a precondition unmet, and the
\* server that starts offers a kernel named dplpy even where Jupyter does not
\* recognise the environment by itself.
C5_FallbackKernelDiscoverable ==
    /\ Position(SummaryWithFallback, Cmd("pip install", "ipykernel"))
         < Position(SummaryWithFallback,
                    Cmd("python -m ipykernel install --user --name", "dplpy"))
    /\ Position(SummaryWithFallback,
                Cmd("python -m ipykernel install --user --name", "dplpy"))
         < Position(SummaryWithFallback, JupyterNotebookCmd)
    /\ trace \in Prefixes(SummaryWithFallback) => ~failed
    /\ trace = SummaryWithFallback =>
          server.env = "dplpy" /\ "dplpy" \in server.kernels

C5_FallbackDone ==
    /\ trace = SummaryWithFallback
    /\ ~recognised
    /\ "dplpy" \in server.kernels

\* C16: the Setup Commands Summary and the step-by-step walkthrough describe
\* the same procedure: the same commands with the same arguments in the same
\* order (conda create --name dplpy python=3.11, conda activate dplpy, pip
\* install dplpy, conda install notebook, jupyter notebook), with the same
\* optional ipykernel steps before jupyter notebook; so a reader is following
\* the one exactly as far as the other.
C16_SameProcedure ==
    /\ \A u \in BOOLEAN :
          Procedure(WalkthroughCommands, u) = Procedure(SummaryCommands, u)
    /\ walk = trace

C16_BothFollowed ==
    /\ walk = SummaryWithFallback
    /\ trace = SummaryWithFallback
    /\ "dplpy" \in kernels
    /\ server # NoServer

(***************************************************************************)
(* Claims about Introduction_to_Python.ipynb                               *)
(***************************************************************************)

\* The item n positions after the first item of q.
RECURSIVE After(_, _)
After(q, n) == IF n = 0 THEN Head(q) ELSE After(Tail(q), n - 1)

\* C6: indexing is zero-based: for 0 <= k < len(s), s[k] is the item k
\* positions after the first item, so s[0] is the first item; the notebook's
\* (my_list[0], my_list[3]) is (1, 4) and (fruits[0], fruits[3]) is
\* ('orange', 'banana').
C6_ZeroBased ==
    raised # "pending" =>
        /\ (0 <= k /\ k < Len(s)) => raised = "" /\ item = <<After(s, k)>>
        /\ (k = 0 /\ s # <<>>) => item = <<Head(s)>>
        /\ (s = my_list /\ k = 0) => item = <<Out_my_list_0_3[1]>>
        /\ (s = my_list /\ k = 3) => item = <<Out_my_list_0_3[2]>>
        /\ (s = fruits /\ k = 0) => item = <<Out_fruits_0_3[1]>>
        /\ (s = fruits /\ k = 3) => item = <<Out_fruits_0_3[2]>>

C6_FruitsIndexed ==
    /\ s = fruits
    /\ k = 3
    /\ raised = ""
    /\ item = <<"banana">>

\* C7: a negative index counts backwards from the end: for 1 <= n <= len(s),
\* s[-n] is s[len(s) - n]; s[-1] is the last item, and my_list[-1] is 6.
C7_NegativeFromEnd ==
    raised # "pending" =>
        /\ (k < 0 /\ 0 - k <= Len(s)) =>
              /\ raised = ""
              /\ Subscript(s, Len(s) + k).raised = ""
              /\ item = Subscript(s, Len(s) + k).item
        /\ (k = -1 /\ s # <<>>) => item = <<s[Len(s)]>>
        /\ (s = my_list /\ k = -1) => item = <<Out_my_list_last>>

C7_MyListLast ==
    /\ s = my_list
    /\ k = -1
    /\ raised = ""
    /\ item = <<6>>

Arranged == {"arange", "reshape", "ValueError"}

\* C8: np.arange(start, stop, step) with integers gives start, start + step,
\* ... for as long as the value lies before stop, and never stop itself;
\* np.arange(0,15,1) is the 15 integers 0 to 14.
C8_ArangeExcludesStop ==
    (Len(args) = 3 /\ stage \in Arranged) =>
        LET start == args[1]
            stop == args[2]
            step == args[3]
            next == start + Len(arr) * step
        IN  /\ \A i \in 1..Len(arr) :
                  /\ arr[i] = start + (i - 1) * step
                  /\ arr[i] # stop
                  /\ step > 0 => arr[i] < stop
                  /\ step < 0 => arr[i] > stop
            /\ step > 0 => next >= stop
            /\ step < 0 => next <= stop
            /\ args = CellArange =>
                  Len(arr) = 15 /\ \A i \in 1..15 : arr[i] = i - 1

C8_CellArranged ==
    /\ args = CellArange
    /\ stage = "arange"
    /\ Len(arr) = 15

\* The other way to write the same .reshape call.
OtherForm(call) == IF Len(call) = 1 THEN call[1] ELSE <<call>>

\* C9: start and step are optional: np.arange(n) is np.arange(0, n, 1), and
\* .reshape(r, c) is .reshape((r, c)); so np.arange(15).reshape(3, 5) is the
\* array, in shape and in elements, of np.arange(0,15,1).reshape((3, 5)).
C9_ShortFormSame ==
    /\ (Len(args) = 1 /\ stage \in Arranged) =>
          arr = NpArange(<<0, args[1], 1>>).value
    /\ stage = "reshape" =>
          mat = Reshape(arr, ShapeOf(OtherForm(shp))).value
    /\ (args = CellArangeShort /\ shp = CellShape /\ stage # "start") =>
          /\ stage \in {"arange", "reshape"}
          /\ stage = "reshape" =>
                /\ mat = Reshape(NpArange(CellArange).value,
                                 ShapeOf(<<CellShape>>)).value
                /\ mat = Out_a

C9_ShortFormReshaped ==
    /\ args = CellArangeShort
    /\ shp = CellShape
    /\ stage = "reshape"
    /\ mat = Out_a

\* The rows of a matrix one after the other.
RECURSIVE Flatten(_)
Flatten(m) == IF m = <<>> THEN <<>> ELSE Head(m) \o Flatten(Tail(m))

\* C10: reshaping to (r, c) gives r rows of c columns that keep every value
\* once, in row-major order; for the 15 numbers 0..14 and (3, 5) the element
\* at row i, column j is 5*i + j, the matrix the notebook shows.
C10_ReshapeRowMajor ==
    stage = "reshape" =>
        LET d == ShapeOf(shp) IN
        /\ Len(mat) = d[1]
        /\ \A i \in 1..d[1] : Len(mat[i]) = d[2]
        /\ Flatten(mat) = arr
        /\ (args = CellArange /\ d = CellShape) =>
              /\ Len(mat) = 3
              /\ \A i \in 0..2 :
                    /\ Len(mat[i + 1]) = 5
                    /\ \A j \in 0..4 : mat[i + 1][j + 1] = 5 * i + j
              /\ mat = Out_a

C10_CellReshaped ==
    /\ args = CellArange
    /\ shp = <<CellShape>>
    /\ stage = "reshape"
    /\ mat[2][1] = 5

\* The output the notebook records under a.shape and under np.shape(a).
Out_shape == <<3, 5>>

\* C11: a.shape and np.shape(a) give the same value, the tuple of the row
\* count and the column count of a; for the notebook's a it is (3, 5), the
\* value recorded under both cells.
C11_ShapeBothForms ==
    shapeFunc # <<>> =>
        /\ shapeFunc = shapeAttr
        /\ shapeAttr = <<Len(mat), ShapeOf(shp)[2]>>
        /\ \A i \in 1..Len(mat) : Len(mat[i]) = shapeAttr[2]
        /\ (args = CellArange /\ shp = <<CellShape>>) =>
              shapeAttr = Out_shape /\ shapeFunc = Out_shape

C11_CellShapes ==
    /\ args = CellArange
    /\ shp = <<CellShape>>
    /\ shapeAttr = <<3, 5>>
    /\ shapeFunc = <<3, 5>>

\* C12: df[lo:hi] selects rows by position, counting from 0, lo included
\* and hi excluded, and keeps every column and value; text_data[0:2] is
\* exactly the rows at positions 0 and 1, as the notebook shows them.
C12_RowSliceByPosition ==
    sliced # NoFrame =>
        /\ sliced.columns = frame.columns
        /\ (0 <= lo /\ lo <= hi /\ hi <= Len(frame.rows)) =>
              /\ Len(sliced.rows) = hi - lo
              /\ \A p \in lo..(hi - 1) :
                    /\ sliced.rows[p - lo + 1] = frame.rows[p + 1]
                    /\ sliced.index[p - lo + 1] = frame.index[p + 1]
        /\ (frame = text_data /\ lo = 0 /\ hi = 2) =>
              /\ sliced = Out_rows_0_2
              /\ sliced.rows = <<text_data.rows[1], text_data.rows[2]>>

C12_TextDataSliced ==
    /\ frame = text_data
    /\ lo = 0
    /\ hi = 2
    /\ sliced = Out_rows_0_2

\* C13: df.loc[lo:hi,:] selects rows by index label with both ends
\* included; text_data.loc[0:2,:] is exactly the rows labelled 0, 1 and 2,
\* one row more than text_data[0:2] gives for the same bounds.
C13_LocSliceByLabel ==
    located # NoFrame =>
        /\ located.columns = frame.columns
        /\ {located.index[i] : i \in 1..Len(located.index)}
              = {l \in {frame.index[i] : i \in 1..Len(frame.index)} :
                    lo <= l /\ l <= hi}
        /\ Len(located.rows) = Len(located.index)
        /\ \A i \in 1..Len(located.index) : \A j \in 1..Len(frame.index) :
              located.index[i] = frame.index[j] =>
                  located.rows[i] = frame.rows[j]
        /\ (frame = text_data /\ lo = 0 /\ hi = 2) =>
              /\ located = Out_loc_0_2
              /\ located.index = <<0, 1, 2>>
              /\ sliced # NoFrame =>
                    Len(located.rows) = Len(sliced.rows) + 1

C13_TextDataLocated ==
    /\ frame = text_data
    /\ lo = 0
    /\ hi = 2
    /\ sliced = Out_rows_0_2
    /\ located = Out_loc_0_2

(***************************************************************************)
(* Claims about the notebooks as a whole                                   *)
(***************************************************************************)

\* The cells of notebook b that read name n, and those that bind it.
Readers(b, n) ==
    {i \in 1..Len(Cells(b)) :
        \E j \in 1..Len(Cells(b)[i]) : n \in Cells(b)[i][j].reads}
Binders(b, n) ==
    {i \in 1..Len(Cells(b)) :
        \E j \in 1..Len(Cells(b)[i]) : n \in Cells(b)[i][j].binds}

\* C14: in both notebooks, running the code cells once each from top to
\* bottom in a fresh kernel never reads a name before it is bound; in
\* particular the cell that binds ca533_rwi (dpl.detrend) comes before every
\* cell that reads it (dpl.chron, dpl.xdate, dpl.series_corr).
C14_NoNameReadUnbound ==
    /\ ran >= 0 => ~nameError
    /\ \A i \in Readers("bristlecone_example", "ca533_rwi") :
          \E j \in Binders("bristlecone_example", "ca533_rwi") : j < i

C14_BristleconeRun ==
    /\ book = "bristlecone_example"
    /\ ran = Len(BristleconeCells)
    /\ ~nameError
    /\ {"pd", "plt", "dpl", "ca533", "ca667", "ca533_rwi"} \subseteq bound

C14_IntroRun ==
    /\ book = "Introduction_to_Python"
    /\ ran = Len(IntroCells)
    /\ {"np", "pd", "text_data", "a", "b"} \subseteq bound

\* What a cell's outputs show, apart from the execution count.
Shown(c) ==
    [j \in 1..Len(c.outputs) |->
        IF c.outputs[j].output_type = "stream" THEN c.outputs[j].text
        ELSE c.outputs[j].data]

\* C15: the output recorded under every code cell of
\* Introduction_to_Python.ipynb is the output the cell produces when the
\* cells are executed once each, top to bottom, from a fresh kernel with the
\* five-row myData.csv.
C15_RecordedIsFreshRun ==
    ran >= 0 => \A i \in 1..ran : outs[i] = Recorded[i]

\* What does hold of such a run: every cell shows what is recorded, under an
\* execution count one less than the recorded one.
RecordedOneAhead ==
    ran >= 0 =>
        \A i \in 1..ran :
            /\ Shown(outs[i]) = Shown(Recorded[i])
            /\ outs[i].execution_count + 1 = Recorded[i].execution_count

\* The notebook as recorded: it is reached by running the first cell twice.
RecordedReached == cell = Len(IntroCells) /\ outs = Recorded

====
